---- MODULE Spec2Model ----
(***************************************************************************)
(* Model of const_list (src/src/lib.rs): ConstList, ConstListItem and      *)
(* ConstListIterator.                                                      *)
(*                                                                         *)
(* A `&ConstList` is modelled as an index into `heap`, the sequence of     *)
(* every ConstList value created so far; heap[h] is the value of the       *)
(* tuple field `.0` of that list (an Option<ConstListItem>).               *)
(***************************************************************************)
EXTENDS Integers, Sequences, FiniteSets, TLC

\* ---- bounds -------------------------------------------------------------
MaxCells == 4     \* ConstList values created in one run
NumVals == 2      \* distinct element values
MaxIndex == 4     \* largest index passed to get

Val == 1..NumVals
Index == 0..MaxIndex

\* ---- Option<T> ----------------------------------------------------------
None == <<>>
Some(x) == <<x>>
Unwrap(o) == o[1]

\* ---- ConstList ----------------------------------------------------------
\* ConstList::new
new == None

\* ConstList::push: the new head owns the value and borrows self
push_onto_new(self, value) == Some([first |-> value, rest |-> 1])

push(self, value) == Some([first |-> value, rest |-> self])

\* ConstList::pop, returns <<Option<&T>, &ConstList>>
pop_self(hp, self) ==
    IF hp[self] # None
    THEN <<Some(Unwrap(hp[self]).first), self>>
    ELSE <<None, self>>

pop_static(hp, self) ==
    IF hp[self] # None
    THEN <<Some(Unwrap(hp[self]).first), Unwrap(hp[self]).rest>>
    ELSE <<None, 1>>

pop(hp, self) ==
    IF hp[self] # None
    THEN <<Some(Unwrap(hp[self]).first), Unwrap(hp[self]).rest>>
    ELSE <<None, self>>

\* The usize subtraction `index - 1` of get: underflow is TRUE when it is
\* evaluated with index = 0 (a panic in const evaluation and in builds with
\* overflow checks).
sub1(index) == [val |-> index - 1, underflow |-> index < 1]

Panic == [val |-> None, underflow |-> TRUE]
Got(o) == [val |-> o, underflow |-> FALSE]

\* ConstList::get.  The result is [val, underflow]: val is the returned
\* Option<&T>, underflow tells whether the call panicked in sub1.
RECURSIVE get_onebased(_, _, _)
get_onebased(hp, self, index) ==
    IF hp[self] # None
    THEN IF index = 1
         THEN Got(Some(Unwrap(hp[self]).first))
         ELSE IF sub1(index).underflow
              THEN Panic
              ELSE get_onebased(hp, Unwrap(hp[self]).rest, sub1(index).val)
    ELSE Got(None)

RECURSIVE get_eager(_, _, _)
get_eager(hp, self, index) ==
    IF sub1(index).underflow
    THEN Panic
    ELSE IF hp[self] # None
         THEN IF index = 0
              THEN Got(Some(Unwrap(hp[self]).first))
              ELSE get_eager(hp, Unwrap(hp[self]).rest, sub1(index).val)
         ELSE Got(None)

RECURSIVE get(_, _, _)
get(hp, self, index) ==
    IF hp[self] # None
    THEN IF index = 0
         THEN Got(Some(Unwrap(hp[self]).first))
         ELSE IF sub1(index).underflow
              THEN Panic
              ELSE get(hp, Unwrap(hp[self]).rest, sub1(index).val)
    ELSE Got(None)

\* ConstList::len
RECURSIVE len_noinc(_, _)
len_noinc(hp, self) ==
    IF hp[self] # None
    THEN len_noinc(hp, Unwrap(hp[self]).rest)
    ELSE 0

RECURSIVE len(_, _)
len(hp, self) ==
    IF hp[self] # None
    THEN len(hp, Unwrap(hp[self]).rest) + 1
    ELSE 0

\* ConstList::is_empty
is_empty_some(hp, self) == hp[self] # None

is_empty(hp, self) == hp[self] = None

\* ConstList::iter
iter(self) == [target |-> self]

\* <&ConstList as IntoIterator>::into_iter
into_iter(self) == [target |-> self]

\* ---- ConstListIterator --------------------------------------------------
\* Iterator::next, returns the item and the iterator after the call
next_skip(hp, it) ==
    LET p == pop(hp, it.target)
    IN  [item |-> p[1], it |-> [target |-> pop(hp, p[2])[2]]]

next(hp, it) ==
    LET p == pop(hp, it.target)
    IN  [item |-> p[1], it |-> [target |-> p[2]]]

\* The items an iterator yields until next returns None (Iterator::count /
\* collect driving next); fuel bounds the number of calls.
RECURSIVE Drain(_, _, _)
Drain(hp, it, fuel) ==
    IF fuel = 0
    THEN <<>>
    ELSE LET r == next(hp, it)
         IN  IF r.item = None
             THEN <<>>
             ELSE <<Unwrap(r.item)>> \o Drain(hp, r.it, fuel - 1)

\* self.iter() driven to its end
Items(hp, self) == Drain(hp, iter(self), Len(hp) + 1)

\* The lists an iterator's target passes through, itself included
RECURSIVE Targets(_, _, _)
Targets(hp, it, fuel) ==
    IF fuel = 0
    THEN {it.target}
    ELSE {it.target} \cup Targets(hp, next(hp, it).it, fuel - 1)

\* ---- state --------------------------------------------------------------
VARIABLES
    heap,     \* heap[h]: the Option<ConstListItem> of list h
    born,     \* history: how list h was made and what it held then
    cursor,   \* the ConstListIterator variable: None, or Some(iterator)
    seen,     \* history: what the iterator captured and has yielded
    ret       \* the last call and what it returned

vars == <<heap, born, cursor, seen, ret>>

Lists == DOMAIN heap
Cursors == DOMAIN cursor   \* {} or {1}

Call(op, self, arg, opt, num) ==
    [op |-> op, self |-> self, arg |-> arg, opt |-> opt, num |-> num]

Init ==
    /\ heap = <<>>
    /\ born = <<>>
    /\ cursor = None
    /\ seen = None
    /\ ret = Call("init", 0, 0, None, 0)

\* let h = ConstList::new();
CallNew ==
    /\ Len(heap) < MaxCells
    /\ heap' = Append(heap, new)
    /\ born' = Append(born, [onto |-> 0, pushes |-> <<>>, items |-> <<>>])
    /\ ret' = Call("new", 0, 0, None, Len(heap) + 1)
    /\ UNCHANGED <<cursor, seen>>

\* history: a push onto the list the iterator captured
NotePush(self) ==
    IF seen # None /\ Unwrap(seen).captured = self
    THEN Some([Unwrap(seen) EXCEPT !.pushedOn = TRUE])
    ELSE seen

\* let h = self.push(value);
CallPush_inplace(self, value) ==
    /\ Len(heap) < MaxCells
    /\ LET hp == Append([heap EXCEPT ![self] = push(Len(heap) + 1, value)], heap[self])
       IN  /\ heap' = hp
           /\ born' = Append(born, [onto |-> self,
                                    pushes |-> Append(born[self].pushes, value),
                                    items |-> Items(hp, Len(hp))])
    /\ seen' = NotePush(self)
    /\ ret' = Call("push", self, value, None, Len(heap) + 1)
    /\ UNCHANGED cursor

CallPush(self, value) ==
    /\ Len(heap) < MaxCells
    /\ LET hp == Append(heap, push(self, value))
       IN  /\ heap' = hp
           /\ born' = Append(born, [onto |-> self,
                                    pushes |-> Append(born[self].pushes, value),
                                    items |-> Items(hp, Len(hp))])
    /\ seen' = NotePush(self)
    /\ ret' = Call("push", self, value, None, Len(heap) + 1)
    /\ UNCHANGED cursor

\* self.pop()
CallPop(self) ==
    /\ ret' = Call("pop", self, 0, pop(heap, self)[1], pop(heap, self)[2])
    /\ UNCHANGED <<heap, born, cursor, seen>>

\* self.get(index)
CallGet(self, index) ==
    /\ ret' = Call("get", self, index, get(heap, self, index).val,
                   IF get(heap, self, index).underflow THEN 1 ELSE 0)
    /\ UNCHANGED <<heap, born, cursor, seen>>

\* self.len()
CallLen(self) ==
    /\ ret' = Call("len", self, 0, None, len(heap, self))
    /\ UNCHANGED <<heap, born, cursor, seen>>

\* self.is_empty()
CallIsEmpty(self) ==
    /\ ret' = Call("is_empty", self, 0, None, IF is_empty(heap, self) THEN 1 ELSE 0)
    /\ UNCHANGED <<heap, born, cursor, seen>>

\* history of a fresh iterator over self
Capture(self) ==
    [captured |-> self, snapshot |-> Items(heap, self), pushedOn |-> FALSE,
     yielded |-> <<>>, ended |-> FALSE, again |-> FALSE]

\* cursor = self.iter();
CallIter(self) ==
    /\ cursor' = Some(iter(self))
    /\ seen' = Some(Capture(self))
    /\ ret' = Call("iter", self, 0, None, self)
    /\ UNCHANGED <<heap, born>>

\* cursor = (&self).into_iter();
CallIntoIter(self) ==
    /\ cursor' = Some(into_iter(self))
    /\ seen' = Some(Capture(self))
    /\ ret' = Call("into_iter", self, 0, None, self)
    /\ UNCHANGED <<heap, born>>

\* cursor.next()
CallNext ==
    /\ cursor # None
    /\ LET r == next(heap, Unwrap(cursor))
           s == Unwrap(seen)
       IN  /\ cursor' = Some(r.it)
           /\ seen' = Some([s EXCEPT !.yielded = @ \o r.item,
                                     !.ended = @ \/ r.item = None,
                                     !.again = @ \/ s.ended])
           /\ ret' = Call("next", 0, 0, r.item, r.it.target)
    /\ UNCHANGED <<heap, born>>

Build ==
    \/ CallNew
    \/ \E self \in Lists, value \in Val : CallPush(self, value)

\* Lists are built and queried
NextList ==
    \/ Build
    \/ \E self \in Lists : CallPop(self)
    \/ \E self \in Lists, index \in Index : CallGet(self, index)
    \/ \E self \in Lists : CallLen(self)
    \/ \E self \in Lists : CallIsEmpty(self)

SpecList == Init /\ [][NextList]_vars

\* Lists are built and iterated
NextIter ==
    \/ Build
    \/ \E self \in Lists : CallIter(self)
    \/ \E self \in Lists : CallIntoIter(self)
    \/ CallNext

SpecIter == Init /\ [][NextIter]_vars

\* ---- properties ---------------------------------------------------------
Reverse(s) == [i \in 1..Len(s) |-> s[Len(s) + 1 - i]]
IsPrefix(s, t) == Len(s) <= Len(t) /\ \A i \in 1..Len(s) : s[i] = t[i]
Drop(s, n) == [i \in 1..(Len(s) - n) |-> s[i + n]]
Pushed(h) == born[h].onto # 0

\* C1: popping a list made by push gives the value just pushed and the very
\* list (same reference) that was pushed onto.
C1_PushPop ==
    /\ \A h \in Lists : Pushed(h) =>
          pop(heap, h) = <<Some(born[h].pushes[Len(born[h].pushes)]), born[h].onto>>
    /\ (ret.op = "pop" /\ Pushed(ret.self)) =>
          /\ ret.opt = Some(born[ret.self].pushes[Len(born[ret.self].pushes)])
          /\ ret.num = born[ret.self].onto

\* a pushed list was popped while another list with the same contents as the
\* one pushed onto exists
C1_Witness ==
    /\ ret.op = "pop"
    /\ Pushed(ret.self)
    /\ \E k \in Lists : k # ret.num /\ heap[k] = heap[ret.num]

\* C2: len equals the number of items an iterator yields before it returns
\* None.
C2_LenIsCount ==
    /\ \A h \in Lists : len(heap, h) = Len(Items(heap, h))
    /\ (seen # None /\ Unwrap(seen).ended) =>
          Len(Unwrap(seen).yielded) = len(heap, Unwrap(seen).captured)

C2_Witness ==
    seen # None /\ Unwrap(seen).ended /\ Len(Unwrap(seen).yielded) >= 2

\* C3: for i < len, get(i) is the i-th item (zero-based) the iterator yields.
C3_GetIsIth ==
    /\ \A h \in Lists : \A i \in Index : i < len(heap, h) =>
          get(heap, h, i) = Got(Some(Items(heap, h)[i + 1]))
    /\ \A c \in Cursors : \A i \in 1..Len(seen[c].yielded) :
          get(heap, seen[c].captured, i - 1).val = Some(seen[c].yielded[i])

\* a cursor has yielded three items, not all equal
C3_Witness ==
    \E c \in Cursors :
        /\ Len(seen[c].yielded) = 3
        /\ seen[c].yielded[1] # seen[c].yielded[3]
        /\ get(heap, seen[c].captured, 2).val = Some(seen[c].yielded[3])

\* C4: for i >= len, get(i) is None and the subtraction index - 1 is never
\* evaluated with index = 0.
C4_GetOutOfRange ==
    /\ \A h \in Lists : \A i \in Index : i >= len(heap, h) =>
          get(heap, h, i) = Got(None)
    /\ (ret.op = "get" /\ ret.arg >= len(heap, ret.self)) =>
          ret.opt = None /\ ret.num = 0

C4_Witness ==
    /\ ret.op = "get"
    /\ len(heap, ret.self) >= 2
    /\ ret.arg > len(heap, ret.self)
    /\ ret.opt = None
    /\ ret.num = 0

\* C5: after pushing v1, ..., vn in that order onto new(), the iterator
\* yields vn, ..., v1, get(0) is vn, get(n-1) is v1 and get(n) is None.
C5_Order ==
    /\ \A h \in Lists :
          LET vs == born[h].pushes
              n == Len(vs)
          IN  /\ Items(heap, h) = Reverse(vs)
              /\ n > 0 => /\ get(heap, h, 0).val = Some(vs[n])
                          /\ get(heap, h, n - 1).val = Some(vs[1])
              /\ get(heap, h, n).val = None
    /\ \A c \in Cursors :
          /\ IsPrefix(seen[c].yielded, Reverse(born[seen[c].captured].pushes))
          /\ seen[c].ended => seen[c].yielded = Reverse(born[seen[c].captured].pushes)

C5_Witness ==
    \E c \in Cursors :
        LET vs == born[seen[c].captured].pushes
        IN  /\ Len(vs) = 3
            /\ vs[1] # vs[3]
            /\ seen[c].ended
            /\ seen[c].yielded = <<vs[3], vs[2], vs[1]>>

\* C6: push never changes the list it is applied to: every list keeps the
\* length and items it had when it was made, and the remainder pop returns
\* for a list pushed onto A reports A's original items.
C6_PushFrame ==
    /\ \A a \in Lists :
          /\ Items(heap, a) = born[a].items
          /\ len(heap, a) = Len(born[a].items)
    /\ \A h \in Lists : Pushed(h) =>
          Items(heap, pop(heap, h)[2]) = born[born[h].onto].items

\* two divergent pushes onto a non-empty list A
C6_Witness ==
    \E a, b, c \in Lists :
        /\ Pushed(a)
        /\ b # c
        /\ born[b].onto = a
        /\ born[c].onto = a
        /\ born[b].pushes # born[c].pushes

\* C7: pop of an empty list returns (None, that same list), and so does pop
\* of the returned remainder.
C7_PopEmpty ==
    /\ \A e \in Lists : is_empty(heap, e) =>
          /\ pop(heap, e) = <<None, e>>
          /\ pop(heap, pop(heap, e)[2]) = <<None, e>>
    /\ (ret.op = "pop" /\ is_empty(heap, ret.self)) =>
          ret.opt = None /\ ret.num = ret.self

\* an empty list was popped while another empty list exists
C7_Witness ==
    /\ ret.op = "pop"
    /\ ret.self # 1
    /\ is_empty(heap, ret.self)
    /\ ret.opt = None

\* C8: what a cursor yields is fixed by the list captured by iter(): pushes
\* and calls of next leave it unchanged, and a fresh cursor from the same
\* list yields the same sequence.
C8_Snapshot ==
    \A c \in Cursors :
        /\ Items(heap, seen[c].captured) = seen[c].snapshot
        /\ IsPrefix(seen[c].yielded, seen[c].snapshot)
        /\ seen[c].ended => seen[c].yielded = seen[c].snapshot

\* a cursor ran to its end and a list was pushed onto the captured list
\* after iter()
C8_Witness ==
    \E c \in Cursors : \E h \in Lists :
        /\ seen[c].pushedOn
        /\ born[h].onto = seen[c].captured
        /\ seen[c].ended
        /\ Len(seen[c].yielded) >= 1

\* C9: is_empty iff len = 0; new() is empty with length 0; a pushed list is
\* non-empty and one longer than the list pushed onto.
C9_IsEmpty ==
    /\ \A h \in Lists :
          /\ is_empty(heap, h) <=> len(heap, h) = 0
          /\ ~Pushed(h) => is_empty(heap, h) /\ len(heap, h) = 0
          /\ Pushed(h) => /\ ~is_empty(heap, h)
                          /\ len(heap, h) = len(heap, born[h].onto) + 1
    /\ ret.op = "is_empty" => (ret.num = 1 <=> len(heap, ret.self) = 0)

C9_Witness ==
    /\ ret.op = "is_empty"
    /\ ret.num = 0
    /\ len(heap, ret.self) >= 2
    /\ \E e \in Lists : ~Pushed(e) /\ is_empty(heap, e)

\* C10: a cursor's target is a suffix of the captured list, yielded count
\* plus remaining length is the captured length, and after next returned
\* None the target is empty and next returns None again without changing
\* the cursor.
C10_Cursor ==
    /\ \A c \in Cursors :
          LET s == seen[c]
              t == cursor[c].target
          IN  /\ t \in Targets(heap, iter(s.captured), Len(heap))
              /\ Items(heap, t) = Drop(Items(heap, s.captured), Len(s.yielded))
              /\ Len(s.yielded) + len(heap, t) = len(heap, s.captured)
              /\ s.ended => /\ is_empty(heap, t)
                            /\ next(heap, cursor[c]) = [item |-> None, it |-> cursor[c]]
    /\ (ret.op = "next" /\ Unwrap(seen).again) =>
          ret.opt = None /\ ret.num = Unwrap(cursor).target

\* next was called again after it had returned None, on a list of two or more
C10_Witness ==
    /\ ret.op = "next"
    /\ Unwrap(seen).again
    /\ Len(Unwrap(seen).yielded) >= 2

====
